---- MODULE Spec2Model ----
(***************************************************************************)
(* Model of the 24-Mountains compass overlay (App.tsx, CompassOverlay,     *)
(* SearchBar, geoService).                                                 *)
(*                                                                         *)
(* Angles are integers in units of 1/1000 degree, so 360 degrees is 360000 *)
(* and the 0.5 degree snap grid is 500.  JavaScript numbers that the code  *)
(* handles are finite here; Math.round is "round half up" (floor(x+0.5)).  *)
(***************************************************************************)
EXTENDS Integers, Sequences, FiniteSets, TLC

----------------------------------------------------------------------------
(* Bounds of the model *)

\* pointer positions are the integer offsets from the compass center with
\* |x| <= MaxCoord and |y| <= MaxCoord + 1
MaxCoord == 1
\* how many drag-starts may be outstanding (listener sets registered) at once
MaxListeners == 2
\* how many +/-0.5 step-button presses a behaviour contains
MaxSteps == 2

----------------------------------------------------------------------------
(* Program constants *)

\* one full turn, the 360 of handleFacadeRotationChange
FullTurn == 360000
\* the snap grid: Math.round(x * 2) / 2 rounds to multiples of 0.5
HalfDeg == 500
\* vibration durations requested by the drag controller
VibrateStart == 20
VibrateStep == 5
VibrateEnd == 10

Abs(n) == IF n < 0 THEN -n ELSE n

\* the JavaScript % operator: the remainder takes the sign of the dividend
JsMod(a, b) == IF a >= 0 THEN a % b ELSE -((-a) % b)

\* Math.round(x * 2) / 2 on millidegrees: nearest multiple of 500, ties upward
SnapHalfNearest(v) == ((v + 250) \div 500) * 500
\* a release that reports the live value without rounding
SnapNone(v) == v
Snap(v) == SnapHalfNearest(v)

----------------------------------------------------------------------------
(* Math.atan2 in millidegrees on the integer grid *)

\* atan(a/b) for 0 <= a <= b, b > 0, rounded to 1/1000 degree
AtanRatio(a, b) ==
    CASE a = 0         -> 0
      [] a = b         -> 45000
      [] 2 * a = b     -> 26565
      [] 3 * a = b     -> 18435
      [] 3 * a = 2 * b -> 33690
      [] 4 * a = b     -> 14036
      [] 4 * a = 3 * b -> 36870

\* Math.atan2(y, x) * 180 / Math.PI, in (-180000, 180000]; atan2(0, 0) = 0
Atan2Milli(y, x) ==
    IF x = 0 /\ y = 0 THEN 0
    ELSE LET ax == Abs(x)
             ay == Abs(y)
             base == IF ay <= ax THEN AtanRatio(ay, ax) ELSE 90000 - AtanRatio(ax, ay)
         IN  IF x >= 0 /\ y >= 0 THEN base
             ELSE IF x < 0 /\ y >= 0 THEN 180000 - base
             ELSE IF x < 0 /\ y < 0 THEN base - 180000
             ELSE -base

\* calculateRotation's angle for a pointer at offset p = <<x, y>> from the center
\* (screen coordinates: y grows downward)
PointerAngleFromTop(p) ==
    LET a == Atan2Milli(p[2], p[1]) + 90000
    IN  IF a < 0 THEN a + FullTurn ELSE a
\* the angle counted from 3 o'clock, without the quarter turn
PointerAngleFromRight(p) ==
    LET a == Atan2Milli(p[2], p[1])
    IN  IF a < 0 THEN a + FullTurn ELSE a
PointerAngle(p) == PointerAngleFromTop(p)

PointerOffsets == (-MaxCoord..MaxCoord) \X (-(MaxCoord + 1)..(MaxCoord + 1))

----------------------------------------------------------------------------
(* handleFacadeRotationChange *)

WrapOnce(val) ==
    LET a == IF val >= FullTurn THEN val - FullTurn ELSE val
    IN  IF a < 0 THEN a + FullTurn ELSE a
\* a wrap that only handles overshoot
WrapNoNegative(val) == IF val >= FullTurn THEN val - FullTurn ELSE val
WrapFacade(val) == WrapOnce(val)

----------------------------------------------------------------------------
(* Inputs *)

\* facadeRotation parsed from the rot parameter of a share URL, or the default 0
InitRotations == {0, 12340}
\* values the 0..360 step 0.5 range input can deliver
SliderValues == {0, 180000, 359500, 360000}
\* numbers a voice transcript can contain: /(\d+(\.\d+)?)/ matches any non-negative decimal
VoiceNumbers == {45250, 360000, 720000}

MoveTypes == {"mousemove", "touchmove"}
UpTypes == {"mouseup", "touchend"}
\* window events that can end a gesture without a pointer-up
OtherTypes == {"touchcancel", "pointercancel", "blur"}
ListenerTypes == MoveTypes \cup UpTypes

----------------------------------------------------------------------------
VARIABLES
    facadeRotation,     \* App state
    isMapMode,          \* App state; CompassOverlay.isInteractive = ~isMapMode
    facadeRotationRef,  \* CompassOverlay ref, copied from facadeRotation by an effect
    isDraggingFacade,   \* CompassOverlay state
    listeners,          \* window listeners: event type -> set of drag-start closures
    stepsUsed,          \* step-button presses so far
    lastOp,             \* the handler that ran last (the altitude, declination and map-lock
                        \* handlers do not record themselves)
    callbacks,          \* values passed to onFacadeChange by the last handler, in order
    vibrations,         \* durations passed to navigator.vibrate by the last handler
    \* SearchBar
    query,              \* state: the text of the input
    results,            \* state: the result list (display names)
    isLoading,          \* state
    isOpen,             \* state
    skipDebounceRef,    \* ref
    externalQuery,      \* prop: App's centerAddress
    activeEffect,       \* the debounce-effect closure whose `active` flag is still true (0: none)
    timer,              \* the pending 500 ms timeout of that closure, or NoTimer
    inflight,           \* searchAddress calls awaiting their response
    \* App: template rotation and altitudes
    declination,        \* state
    useDeclination,     \* state
    mapInstance,        \* state: TRUE once handleMapReady has stored the map
    showAltitudes,      \* state
    mountainAltitudes,  \* state: sector id -> elevation, as a set of [id, alt] entries
    altitudeDebounceRef,\* ref: the pending timeout with the render it closes over, or NoAltTimer
    batches,            \* getBatchAltitudes calls awaiting the elevation service
    stableMs,           \* time since normalizedTemplateRotation last changed (capped)
    \* one call of getBatchAltitudes
    batchN,             \* the number of locations passed
    batchResp,          \* what the elevation service does
    batchOut,           \* the array the call resolved to
    batchDone,          \* the call has resolved
    \* one sector of the ring being laid out, and an angle on the ring
    geoSector,          \* index into MOUNTAINS
    geoAngle,           \* an angle in [0, 360)
    geoMid,             \* the midpoint computed for the sector
    geoDone,            \* the midpoint has been computed
    \* App: sector selection, analysis panel, share dialog
    selectedMountain,   \* state: the id of the selected sector, or NoMountain
    showAnalysis,       \* state
    analysis,           \* state: [isLoading, result, error]
    shareUrl,           \* state: shareData.url, the parameters of the URL built last
    sharedFrom,         \* the orientation state handleOpenShare read when it built shareUrl
    \* geminiService
    apiKey,             \* process.env.API_KEY is set
    aiClients,          \* GoogleGenAI clients created so far
    aiRequests,         \* generateContent calls awaiting their answer
    \* App: declination auto-detect
    isDetectingDeclination, \* state
    declinationError,   \* state: the message, or NoDetectError for null
    detection,          \* where handleAutoDetectDeclination is suspended
    detectClosure,      \* mapInstance and isMapLocked of the render whose handler is suspended
    \* one call of calculateRotation
    ptrClient,          \* clientX, clientY of the event
    ptrCenter,          \* the center of the compass rectangle
    ptrAngle,           \* the angle passed to onFacadeChange
    ptrDone,            \* the call has been made
    \* App: the map
    isMapLocked,        \* state
    mapCenter           \* the place at the center of the Yandex map

dragVars == <<facadeRotation, isMapMode, facadeRotationRef, isDraggingFacade,
              listeners, stepsUsed, callbacks, vibrations>>

searchVars == <<query, results, isLoading, isOpen, skipDebounceRef, externalQuery,
                activeEffect, timer, inflight>>

altVars == <<declination, useDeclination, mapInstance, showAltitudes, mountainAltitudes,
             altitudeDebounceRef, batches, stableMs>>

batchVars == <<batchN, batchResp, batchOut, batchDone>>
geoVars == <<geoSector, geoAngle, geoMid, geoDone>>

panelVars == <<selectedMountain, showAnalysis, analysis>>
shareVars == <<shareUrl, sharedFrom>>
aiVars == <<apiKey, aiClients, aiRequests>>
detectVars == <<isDetectingDeclination, declinationError, detection, detectClosure>>
ptrVars == <<ptrClient, ptrCenter, ptrAngle, ptrDone>>
mapVars == <<isMapLocked, mapCenter>>
appVars == <<panelVars, shareVars, aiVars, detectVars, ptrVars, mapVars>>

vars == <<lastOp, dragVars, searchVars, altVars, batchVars, geoVars, appVars>>

\* what the handlers of one component leave alone
nonDragVars == <<searchVars, altVars, batchVars, geoVars, appVars>>
nonSearchVars == <<dragVars, altVars, batchVars, geoVars, appVars>>
nonAltVars == <<lastOp, dragVars, searchVars, batchVars, geoVars, appVars>>
nonBatchVars == <<lastOp, dragVars, searchVars, altVars, geoVars, appVars>>
nonGeoVars == <<lastOp, dragVars, searchVars, altVars, batchVars, appVars>>

----------------------------------------------------------------------------
(* CompassOverlay drag controller *)

Repeat(k, x) == [i \in 1..k |-> x]

\* calculateRotation: the vibration requests and the callback value of one call
CalcVibrations(angle, ref) == IF Snap(angle) # Snap(ref) THEN <<VibrateStep>> ELSE <<>>

NoListeners == [t \in ListenerTypes |-> {}]

\* window.addEventListener x4 at the end of handleFacadeDragStart
AddDragListeners(ls, id) == [t \in ListenerTypes |-> ls[t] \cup {id}]

\* handleUp's four removeEventListener calls for its own closure
RemoveAllFour(ls, id) == [t \in ListenerTypes |-> ls[t] \ {id}]
\* a teardown that forgets the touch listeners
RemoveMouseOnly(ls, id) ==
    [t \in ListenerTypes |-> IF t \in {"mousemove", "mouseup"} THEN ls[t] \ {id} ELSE ls[t]]
RemoveDragListeners(ls, id) == RemoveAllFour(ls, id)

RECURSIVE RemoveEach(_, _)
RemoveEach(ls, ids) ==
    IF ids = {} THEN ls
    ELSE LET id == CHOOSE i \in ids : TRUE
         IN  RemoveEach(RemoveDragListeners(ls, id), ids \ {id})

FreshId == CHOOSE i \in 1..(MaxListeners + 1) : i \notin listeners["mousemove"]

\* onMouseDown / onTouchStart on the facade handle
FacadeDragStart(p) ==
    /\ ~isMapMode
    /\ Cardinality(listeners["mousemove"]) < MaxListeners
    /\ LET angle == PointerAngle(p)
       IN  /\ isDraggingFacade' = TRUE
           /\ vibrations' = CalcVibrations(angle, facadeRotationRef) \o <<VibrateStart>>
           /\ callbacks' = <<angle>>
           /\ facadeRotation' = WrapFacade(angle)
           /\ listeners' = AddDragListeners(listeners, FreshId)
    /\ facadeRotationRef' = facadeRotation'
    /\ lastOp' = "dragStart"
    /\ UNCHANGED <<isMapMode, stepsUsed>>
    /\ UNCHANGED nonDragVars

\* a window mousemove / touchmove: every registered handleMove runs calculateRotation
WindowMove(type, p) ==
    /\ listeners[type] # {}
    /\ LET angle == PointerAngle(p)
           k == Cardinality(listeners[type])
       IN  /\ vibrations' = IF Snap(angle) # Snap(facadeRotationRef)
                            THEN Repeat(k, VibrateStep) ELSE <<>>
           /\ callbacks' = Repeat(k, angle)
           /\ facadeRotation' = WrapFacade(angle)
    /\ lastOp' = "move"
    /\ UNCHANGED <<isMapMode, facadeRotationRef, isDraggingFacade, listeners, stepsUsed>>
    /\ UNCHANGED nonDragVars

\* a window mouseup / touchend: every registered handleUp runs
WindowUp(type) ==
    /\ listeners[type] # {}
    /\ LET k == Cardinality(listeners[type])
           snappedRot == Snap(facadeRotationRef)
       IN  /\ isDraggingFacade' = FALSE
           /\ listeners' = RemoveEach(listeners, listeners[type])
           /\ vibrations' = Repeat(k, VibrateEnd)
           /\ callbacks' = Repeat(k, snappedRot)
           /\ facadeRotation' = WrapFacade(snappedRot)
    /\ lastOp' = "up"
    /\ UNCHANGED <<isMapMode, facadeRotationRef, stepsUsed>>
    /\ UNCHANGED nonDragVars

\* useEffect(() => { facadeRotationRef.current = facadeRotation }, [facadeRotation])
RefEffect ==
    /\ facadeRotationRef # facadeRotation
    /\ facadeRotationRef' = facadeRotation
    /\ UNCHANGED <<facadeRotation, isMapMode, isDraggingFacade, listeners, stepsUsed,
                   lastOp, callbacks, vibrations>>
    /\ UNCHANGED nonDragVars

\* the window listeners after an event of a type that none of the four
\* addEventListener calls names: they stay
StaysRegistered(ls) == ls
\* a controller that drops its listeners on such an event
DroppedOnCancel(ls) == NoListeners
ListenersAfterOther(ls) == StaysRegistered(ls)

\* a window event of a type the drag-start registers no listener for: no handler runs
WindowOther(type) ==
    /\ type \notin ListenerTypes
    /\ listeners' = ListenersAfterOther(listeners)
    /\ lastOp' = "other"
    /\ callbacks' = <<>>
    /\ vibrations' = <<>>
    /\ UNCHANGED <<facadeRotation, isMapMode, facadeRotationRef, isDraggingFacade,
                   stepsUsed>>
    /\ UNCHANGED nonDragVars

----------------------------------------------------------------------------
(* App handlers for the facade rotation *)

\* the range input's onChange
SliderChange(v) ==
    /\ facadeRotation' = WrapFacade(v)
    /\ facadeRotationRef' = facadeRotation'
    /\ lastOp' = "slider"
    /\ callbacks' = <<>>
    /\ vibrations' = <<>>
    /\ UNCHANGED <<isMapMode, isDraggingFacade, listeners, stepsUsed>>
    /\ UNCHANGED nonDragVars

\* adjustFacadeRotation(+-0.5)
AdjustFacadeRotation(delta) ==
    /\ stepsUsed < MaxSteps
    /\ stepsUsed' = stepsUsed + 1
    /\ facadeRotation' = WrapFacade(facadeRotation + delta)
    /\ facadeRotationRef' = facadeRotation'
    /\ lastOp' = "step"
    /\ callbacks' = <<>>
    /\ vibrations' = <<>>
    /\ UNCHANGED <<isMapMode, isDraggingFacade, listeners>>
    /\ UNCHANGED nonDragVars

\* recognition.onresult with a number in the transcript
VoiceNumber(degree) ==
    /\ facadeRotation' = WrapFacade(degree)
    /\ lastOp' = "voice"
    /\ callbacks' = <<>>
    /\ vibrations' = <<>>
    /\ UNCHANGED <<isMapMode, facadeRotationRef, isDraggingFacade, listeners, stepsUsed>>
    /\ UNCHANGED nonDragVars

\* the map / compass mode buttons
SetMapMode(b) ==
    /\ isMapMode # b
    /\ isMapMode' = b
    /\ UNCHANGED <<facadeRotation, facadeRotationRef, isDraggingFacade, listeners,
                   stepsUsed, lastOp, callbacks, vibrations>>
    /\ UNCHANGED nonDragVars

----------------------------------------------------------------------------
(* SearchBar *)

\* in-flight searchAddress calls the model follows at once
MaxInFlight == 2

\* texts the user types or dictates into the input
TypedQueries == {"", "mo", "mos", "par"}
\* addresses App passes down as externalQuery (reverse geocoding, handleLocationSelect)
Addresses == {"mos, ru", "par, fr", "red sq"}

\* query.length
StrLen(str) ==
    CASE str = ""        -> 0
      [] str = "mo"      -> 2
      [] str = "mos"     -> 3
      [] str = "par"     -> 3
      [] str = "red sq"  -> 6
      [] str = "mos, ru" -> 7
      [] str = "par, fr" -> 7

\* result.display_name.split(',')[0]
ShortNameOf(name) ==
    CASE name = "mos, ru" -> "mos"
      [] name = "par, fr" -> "par"
      [] OTHER            -> name

\* what the geocoding service answers for a query (display names, in order)
Geo(q) ==
    CASE q = "mo"      -> <<"mos, ru">>
      [] q = "mos"     -> <<"mos, ru">>
      [] q = "par"     -> <<"par, fr">>
      [] q = "mos, ru" -> <<"mos, ru">>
      [] q = "par, fr" -> <<"par, fr">>
      [] OTHER         -> <<>>

\* searchAddress: the data on success, [] on an HTTP error, an exception or a non-array body
SearchAddressGuarded(q, ok) == IF StrLen(q) < 3 \/ ~ok THEN <<>> ELSE Geo(q)
\* a searchAddress that asks the service whatever the query
SearchAddressUnguarded(q, ok) == IF ~ok THEN <<>> ELSE Geo(q)
SearchAddress(q, ok) == SearchAddressGuarded(q, ok)

NoTimer == [id |-> 0, q |-> ""]

\* a closure identity for a new run of the debounce effect
FreshEffect == CHOOSE i \in 1..(MaxInFlight + 1) : i \notin {r.id : r \in inflight}

\* `if (active)` in the timeout callback after the await
ActiveCheck(r) == r.id = activeEffect
\* a callback that applies every response
NoActiveCheck(r) == TRUE
ResponseApplies(r) == ActiveCheck(r)

\* One render pass and the re-render its effects may cause.  q1 and e1 are the query
\* and externalQuery of the render, skip0 the flag when its effects start.  The sync
\* effect (deps [externalQuery]) runs before the debounce effect (deps [query]); a
\* setQuery made by the sync effect causes a second render in which only the
\* debounce effect runs.  Each run of the debounce effect first runs the cleanup of
\* the previous one (active = false, clearTimeout).
Commit(q1, e1, skip0) ==
    LET syncFires == e1 # externalQuery /\ e1 # q1
        skipA == IF syncFires THEN TRUE ELSE skip0
        deb1  == q1 # query
        skipB == IF deb1 THEN FALSE ELSE skipA
        inst1 == IF deb1 THEN (IF skipA THEN "none" ELSE "new") ELSE "keep"
        q2    == IF syncFires THEN e1 ELSE q1
        inst2 == IF syncFires THEN (IF skipB THEN "none" ELSE "new") ELSE inst1
        skipC == IF syncFires THEN FALSE ELSE skipB
    IN  /\ query' = q2
        /\ externalQuery' = e1
        /\ skipDebounceRef' = skipC
        /\ activeEffect' = CASE inst2 = "keep" -> activeEffect
                             [] inst2 = "none" -> 0
                             [] inst2 = "new"  -> FreshEffect
        /\ timer' = CASE inst2 = "keep" -> timer
                      [] inst2 = "none" -> NoTimer
                      [] inst2 = "new"  -> [id |-> FreshEffect, q |-> q2]

\* onChange of the input, and onresult of the voice input
TypeQuery(q) ==
    /\ q # query
    /\ Commit(q, externalQuery, skipDebounceRef)
    /\ lastOp' = "type"
    /\ UNCHANGED <<results, isLoading, isOpen, inflight>>
    /\ UNCHANGED nonSearchVars

ClearSearch ==
    /\ query # ""
    /\ results' = <<>>
    /\ isOpen' = FALSE
    /\ Commit("", externalQuery, skipDebounceRef)
    /\ lastOp' = "clear"
    /\ UNCHANGED <<isLoading, inflight>>
    /\ UNCHANGED nonSearchVars

\* click on an entry of the dropdown; onLocationSelect is App.handleLocationSelect,
\* which sets centerAddress to the display name and centers the map on the result
HandleSelect(name) ==
    /\ isOpen
    /\ \E i \in 1..Len(results) : results[i] = name
    /\ isOpen' = FALSE
    /\ Commit(ShortNameOf(name), name, TRUE)
    /\ mapCenter' = IF mapInstance THEN name ELSE mapCenter
    /\ lastOp' = "select"
    /\ UNCHANGED <<results, isLoading, inflight>>
    /\ UNCHANGED <<dragVars, altVars, batchVars, geoVars>>
    /\ UNCHANGED <<panelVars, shareVars, aiVars, detectVars, ptrVars, isMapLocked>>

\* App sets centerAddress after a reverse geocoding of the map center
ExternalAddress(a) ==
    /\ a # externalQuery
    /\ Commit(query, a, skipDebounceRef)
    /\ lastOp' = "external"
    /\ UNCHANGED <<results, isLoading, isOpen, inflight>>
    /\ UNCHANGED nonSearchVars

\* the 500 ms timeout of the current debounce effect fires: a query of 3+ characters
TimerSearch ==
    /\ timer # NoTimer
    /\ StrLen(timer.q) >= 3
    /\ Cardinality(inflight) < MaxInFlight
    /\ isLoading' = TRUE
    /\ inflight' = inflight \cup {timer}
    /\ timer' = NoTimer
    /\ lastOp' = "request"
    /\ UNCHANGED <<query, results, isOpen, skipDebounceRef, externalQuery, activeEffect>>
    /\ UNCHANGED nonSearchVars

\* the timeout fires for a shorter query
TimerShort ==
    /\ timer # NoTimer
    /\ StrLen(timer.q) < 3
    /\ results' = <<>>
    /\ isOpen' = FALSE
    /\ timer' = NoTimer
    /\ lastOp' = "short"
    /\ UNCHANGED <<query, isLoading, skipDebounceRef, externalQuery, activeEffect, inflight>>
    /\ UNCHANGED nonSearchVars

\* `await searchAddress(query)` resumes
SearchResponse(r, ok) ==
    /\ r \in inflight
    /\ inflight' = inflight \ {r}
    /\ IF ResponseApplies(r)
       THEN /\ results' = SearchAddress(r.q, ok)
            /\ isLoading' = FALSE
            /\ isOpen' = TRUE
            /\ lastOp' = "response"
       ELSE /\ UNCHANGED <<results, isLoading, isOpen>>
            /\ lastOp' = "responseDropped"
    /\ UNCHANGED <<query, skipDebounceRef, externalQuery, activeEffect, timer>>
    /\ UNCHANGED nonSearchVars

\* onFocus of the input
FocusInput ==
    /\ results # <<>>
    /\ ~isOpen
    /\ isOpen' = TRUE
    /\ UNCHANGED <<lastOp, query, results, isLoading, skipDebounceRef, externalQuery,
                   activeEffect, timer, inflight>>
    /\ UNCHANGED nonSearchVars

\* mousedown outside the search box
ClickOutside ==
    /\ isOpen
    /\ isOpen' = FALSE
    /\ UNCHANGED <<lastOp, query, results, isLoading, skipDebounceRef, externalQuery,
                   activeEffect, timer, inflight>>
    /\ UNCHANGED nonSearchVars

----------------------------------------------------------------------------
(* constants.ts: the 24 Mountains, in ring order *)

Mountain(id, direction, startDegree, endDegree) ==
    [id |-> id, direction |-> direction, startDegree |-> startDegree, endDegree |-> endDegree]

MountainsTable ==
    << Mountain("n1",  "N1",  337500, 352500),
       Mountain("n2",  "N2",  352500, 7500),
       Mountain("n3",  "N3",  7500,   22500),
       Mountain("ne1", "NE1", 22500,  37500),
       Mountain("ne2", "NE2", 37500,  52500),
       Mountain("ne3", "NE3", 52500,  67500),
       Mountain("e1",  "E1",  67500,  82500),
       Mountain("e2",  "E2",  82500,  97500),
       Mountain("e3",  "E3",  97500,  112500),
       Mountain("se1", "SE1", 112500, 127500),
       Mountain("se2", "SE2", 127500, 142500),
       Mountain("se3", "SE3", 142500, 157500),
       Mountain("s1",  "S1",  157500, 172500),
       Mountain("s2",  "S2",  172500, 187500),
       Mountain("s3",  "S3",  187500, 202500),
       Mountain("sw1", "SW1", 202500, 217500),
       Mountain("sw2", "SW2", 217500, 232500),
       Mountain("sw3", "SW3", 232500, 247500),
       Mountain("w1",  "W1",  247500, 262500),
       Mountain("w2",  "W2",  262500, 277500),
       Mountain("w3",  "W3",  277500, 292500),
       Mountain("nw1", "NW1", 292500, 307500),
       Mountain("nw2", "NW2", 307500, 322500),
       Mountain("nw3", "NW3", 322500, 337500) >>

\* the table with the wrap-around sector ending at 0 instead of 7.5
MountainsGap == [MountainsTable EXCEPT ![2].endDegree = 0]
\* the table with the north sector starting at 0, so that no sector wraps
MountainsNoWrap == [MountainsTable EXCEPT ![2].startDegree = 0]
MOUNTAINS == MountainsTable

\* the middle of a sector as both the label code and fetchMountainAltitudes compute it
MidWrapAdjusted(m) ==
    LET s == m.startDegree
        e == IF m.endDegree < s THEN m.endDegree + FullTurn ELSE m.endDegree
    IN  (s + e) \div 2
\* the middle without the wrap-around adjustment
MidPlain(m) == (m.startDegree + m.endDegree) \div 2
MidDegree(m) == MidWrapAdjusted(m)

----------------------------------------------------------------------------
(* geoService.getBatchAltitudes *)

JsNull == [k |-> "null", v |-> 0]
JsUndefined == [k |-> "undefined", v |-> 0]
Num(x) == [k |-> "number", v |-> x]

Nulls(n) == [i \in 1..n |-> JsNull]

\* What the elevation service does with a request: an HTTP error status, a thrown
\* exception (network failure, unparsable or null body), or a body whose elevation
\* field is absent/falsy or an array.
HttpError == [kind |-> "httpError", present |-> FALSE, elevation |-> <<>>]
Throws == [kind |-> "throw", present |-> FALSE, elevation |-> <<>>]
Body(present, elevation) == [kind |-> "body", present |-> present, elevation |-> elevation]

\* getBatchAltitudes for n locations and that outcome
BatchAsCoded(n, resp) ==
    IF n = 0 THEN <<>>
    ELSE IF resp.kind = "httpError" THEN Nulls(n)
    ELSE IF resp.kind = "throw" THEN Nulls(n)
    ELSE IF resp.present THEN resp.elevation ELSE Nulls(n)
GetBatchAltitudes(n, resp) == BatchAsCoded(n, resp)

\* alts[i] of a JavaScript array: undefined past its end
At(arr, i) == IF i \in 1..Len(arr) THEN arr[i] ELSE JsUndefined

\* the longest batch and elevation array tried
MaxBatchLen == 3
\* the entries an elevation array is built from
ElevationEntries == {JsNull, Num(120)}
\* the service outcomes tried
BatchOutcomes ==
    {HttpError, Throws, Body(FALSE, <<>>)}
    \cup {Body(TRUE, arr) : arr \in UNION {[1..k -> ElevationEntries] : k \in 0..MaxBatchLen}}

\* a call of getBatchAltitudes resolves
BatchCall ==
    /\ ~batchDone
    /\ batchOut' = GetBatchAltitudes(batchN, batchResp)
    /\ batchDone' = TRUE
    /\ UNCHANGED <<batchN, batchResp>>
    /\ UNCHANGED nonBatchVars

----------------------------------------------------------------------------
(* The ring: sector arcs and their midpoints *)

\* the spacing of the angles tried on the ring, in millidegrees
AngleStep == 7500
\* angles in [0, 360): a grid, and every sector boundary with its two neighbours
RingAngles ==
    {k * AngleStep : k \in 0..((FullTurn - 1) \div AngleStep)}
    \cup {(MountainsTable[i].startDegree + d) % FullTurn : i \in 1..Len(MountainsTable), d \in {-1, 0, 1}}

\* the midpoint step of the forEach over MOUNTAINS, for one sector
ArcMidpoint ==
    /\ ~geoDone
    /\ geoMid' = MidDegree(MOUNTAINS[geoSector])
    /\ geoDone' = TRUE
    /\ UNCHANGED <<geoSector, geoAngle>>
    /\ UNCHANGED nonGeoVars

----------------------------------------------------------------------------
(* App: template rotation, altitude refresh *)

\* batch requests the model follows at once
MaxBatches == 1
\* the step of the model's clock, in ms
TickMs == 250
\* the delay of the altitude timeout, in ms
DebounceMs == 500

\* values of the declination slider (-45..45, step 0.1) and the default 12.0
DeclinationValues == {-10000, 12000}
\* sets of sectors whose projection.fromGlobalPixels call throws
ProjectionFailures == {{}, {"n2", "s2"}}

\* a template that turns with the facade arrow
TemplateRotationWithFacade(dec, use) == (IF use THEN dec ELSE 0) + facadeRotation
TemplateRotation(dec, use) == IF use THEN dec ELSE 0
\* a single remainder, which keeps the sign of a negative rotation
NormalizedOnce(t) == JsMod(t, FullTurn)
Normalized(t) == JsMod(JsMod(t, FullTurn) + FullTurn, FullTurn)
NormalizedTemplateRotation == Normalized(TemplateRotation(declination, useDeclination))

NoAltTimer == [set |-> FALSE, rot |-> 0, map |-> FALSE, age |-> 0]

\* the elevation of the ring point at a bearing
ElevationAt(bearing) == bearing \div 1000

RECURSIVE SelectSeq2(_, _)
SelectSeq2(seq, drop) ==
    IF seq = <<>> THEN <<>>
    ELSE IF Head(seq).id \in drop THEN SelectSeq2(Tail(seq), drop)
         ELSE <<Head(seq)>> \o SelectSeq2(Tail(seq), drop)

\* a loop that stops at the first sector whose projection throws
RECURSIVE UntilFailure(_, _)
UntilFailure(seq, drop) ==
    IF seq = <<>> \/ Head(seq).id \in drop THEN <<>>
    ELSE <<Head(seq)>> \o UntilFailure(Tail(seq), drop)
LocationsAbort(rot, failing) ==
    UntilFailure([i \in 1..Len(MOUNTAINS) |->
                     [id |-> MOUNTAINS[i].id,
                      bearing |-> (MidDegree(MOUNTAINS[i]) + rot) % FullTurn]],
                 failing)

\* the locations array fetchMountainAltitudes builds: one sample point per sector whose
\* projection succeeded, at bearing mid + rotation on the ring
Locations(rot, failing) ==
    SelectSeq2([i \in 1..Len(MOUNTAINS) |->
                   [id |-> MOUNTAINS[i].id,
                    bearing |-> (MidDegree(MOUNTAINS[i]) + rot) % FullTurn]],
               failing)

\* what the elevation service can answer for a batch: errors, no elevation field, the
\* full array, the array with a null entry, the array one entry short
AltResponses(locs) ==
    LET full == [i \in 1..Len(locs) |-> Num(ElevationAt(locs[i].bearing))]
    IN  {HttpError, Throws, Body(FALSE, <<>>), Body(TRUE, full)}
        \cup (IF locs = <<>> THEN {}
              ELSE {Body(TRUE, [full EXCEPT ![1] = JsNull]),
                    Body(TRUE, SubSeq(full, 1, Len(full) - 1))})

\* newAltMap: the entries whose alts[i] !== null
NewAltMap(locs, alts) ==
    {[id |-> locs[i].id, alt |-> At(alts, i)] : i \in {j \in 1..Len(locs) : At(alts, j) # JsNull}}

\* fetchMountainAltitudes as called from a render with that rotation and map: the
\* request it issues, if any
FetchIssues(map) == map
Fetch(rot, map, failing) ==
    IF FetchIssues(map)
    THEN /\ Cardinality(batches) < MaxBatches
         /\ batches' = batches \cup {[rot |-> rot, failed |-> failing,
                                       locs |-> Locations(rot, failing)]}
    ELSE UNCHANGED batches

\* the effect with deps [normalizedTemplateRotation, showAltitudes], run after a render
\* in which one of them changed: it starts the timeout unless one is pending
AltEffect(changed, show, rot, map) ==
    altitudeDebounceRef' =
        IF changed /\ show /\ ~altitudeDebounceRef.set
        THEN [set |-> TRUE, rot |-> rot, map |-> map, age |-> 0]
        ELSE altitudeDebounceRef

\* handleMapReady
MapReady ==
    /\ ~mapInstance
    /\ mapInstance' = TRUE
    /\ UNCHANGED <<declination, useDeclination, showAltitudes, mountainAltitudes,
                   altitudeDebounceRef, batches, stableMs>>
    /\ UNCHANGED nonAltVars

\* toggleAltitudes, switching on
AltitudesOn ==
    /\ ~showAltitudes
    /\ showAltitudes' = TRUE
    /\ \E failing \in ProjectionFailures :
           Fetch(NormalizedTemplateRotation, mapInstance, failing)
    /\ AltEffect(TRUE, TRUE, NormalizedTemplateRotation, mapInstance)
    /\ UNCHANGED <<declination, useDeclination, mapInstance, mountainAltitudes,
                   stableMs>>
    /\ UNCHANGED nonAltVars

\* toggleAltitudes, switching off
AltitudesOff ==
    /\ showAltitudes
    /\ showAltitudes' = FALSE
    /\ mountainAltitudes' = {}
    /\ UNCHANGED <<declination, useDeclination, mapInstance, altitudeDebounceRef,
                   batches, stableMs>>
    /\ UNCHANGED nonAltVars

\* a change of declination / useDeclination and the effect of the render it causes
RotationChange(dec, use) ==
    LET rot == Normalized(TemplateRotation(dec, use))
        changed == rot # NormalizedTemplateRotation
    IN  /\ declination' = dec
        /\ useDeclination' = use
        /\ AltEffect(changed, showAltitudes, rot, mapInstance)
        /\ stableMs' = IF changed THEN 0 ELSE stableMs
        /\ UNCHANGED <<mapInstance, showAltitudes, mountainAltitudes, batches>>
        /\ UNCHANGED nonAltVars

\* the declination slider's onChange
SetDeclination(dec) ==
    /\ dec # declination
    /\ RotationChange(dec, useDeclination)

\* the declination switch
ToggleUseDeclination ==
    /\ RotationChange(declination, ~useDeclination)

\* time passes; a due timeout fires before more time passes
Tick ==
    /\ ~(altitudeDebounceRef.set /\ altitudeDebounceRef.age >= DebounceMs)
    /\ altitudeDebounceRef.set \/ stableMs < DebounceMs
    /\ altitudeDebounceRef' =
           IF altitudeDebounceRef.set
           THEN [altitudeDebounceRef EXCEPT !.age = @ + TickMs]
           ELSE altitudeDebounceRef
    /\ stableMs' = IF stableMs < DebounceMs THEN stableMs + TickMs ELSE stableMs
    /\ UNCHANGED <<declination, useDeclination, mapInstance, showAltitudes,
                   mountainAltitudes, batches>>
    /\ UNCHANGED nonAltVars

\* the timeout callback: fetchMountainAltitudes of the render that set the timeout
AltTimerFire ==
    /\ altitudeDebounceRef.set
    /\ altitudeDebounceRef.age >= DebounceMs
    /\ \E failing \in ProjectionFailures :
           Fetch(altitudeDebounceRef.rot, altitudeDebounceRef.map, failing)
    /\ altitudeDebounceRef' = NoAltTimer
    /\ UNCHANGED <<declination, useDeclination, mapInstance, showAltitudes,
                   mountainAltitudes, stableMs>>
    /\ UNCHANGED nonAltVars

\* the map's actionend event: onActionEnd of the current render, its reverseGeocode
\* answered before the next event
ActionEnd ==
    /\ mapInstance
    /\ showAltitudes
    /\ \E failing \in ProjectionFailures :
           Fetch(NormalizedTemplateRotation, mapInstance, failing)
    /\ UNCHANGED <<declination, useDeclination, mapInstance, showAltitudes,
                   mountainAltitudes, altitudeDebounceRef, stableMs>>
    /\ UNCHANGED nonAltVars

\* `await getBatchAltitudes(locations)` resumes in fetchMountainAltitudes
BatchResponse(b, resp) ==
    /\ b \in batches
    /\ batches' = batches \ {b}
    /\ mountainAltitudes' = NewAltMap(b.locs, GetBatchAltitudes(Len(b.locs), resp))
    /\ UNCHANGED <<declination, useDeclination, mapInstance, showAltitudes,
                   altitudeDebounceRef, stableMs>>
    /\ UNCHANGED nonAltVars

----------------------------------------------------------------------------
(* App: sector selection and the share URL *)

NoMountain == "none"
\* declinationError when it is null
NoDetectError == [text |-> "null", hint |-> ""]
MountainIds == {MOUNTAINS[i].id : i \in 1..Len(MOUNTAINS)}

\* the analysis state: null is the string "null"
AnalysisState(loading, result, error) ==
    [isLoading |-> loading, result |-> result, error |-> error]
AnalysisIdle == AnalysisState(FALSE, "null", "null")

\* Number.prototype.toFixed(2) of a value in millidegrees: the decimal string, held as
\* its number of hundredths; the nearest hundredth, a tie going away from zero
ToFixed2(v) == IF v >= 0 THEN (v + 5) \div 10 ELSE -((5 - v) \div 10)
\* a string with one decimal instead of two, as hundredths
ToFixed1(v) == IF v >= 0 THEN ((v + 50) \div 100) * 10 ELSE -(((50 - v) \div 100) * 10)
RotToString(v) == ToFixed2(v)
\* parseFloat of such a string, in millidegrees
ParseFloat(hundredths) == hundredths * 10

\* the query parameters rot, dec, useDec and m of a URL
UrlParams(rot, dec, useDec, hasM, m) ==
    [built |-> TRUE, rot |-> rot, dec |-> dec, useDec |-> useDec, hasM |-> hasM, m |-> m]
NoUrl == [built |-> FALSE, rot |-> 0, dec |-> 0, useDec |-> "", hasM |-> FALSE, m |-> ""]
NothingShared == [rot |-> 0, dec |-> 0, useDec |-> FALSE, m |-> NoMountain]

\* String(useDeclination)
BoolToStringLower(b) == IF b THEN "true" ELSE "false"
\* a capitalised rendering of the flag
BoolToStringCaps(b) == IF b THEN "True" ELSE "False"
BoolToString(b) == BoolToStringLower(b)

\* the initial selectedMountain for a URL: MOUNTAINS.find by the m parameter
MountainFromUrl(u) ==
    IF u.hasM /\ u.m # "" /\ u.m \in MountainIds THEN u.m ELSE NoMountain

\* sectors the user selects in the model
SelectableSectors == {2, 14}

\* the map's center before anything moved it, and after setCenter on the device location
InitialCenter == "initial"
DeviceCenter == "device"
\* handleAutoDetectDeclination when none is running
NoDetectClosure == [map |-> FALSE, locked |-> FALSE]

\* handleSelectMountain, from a click on the ring (with the event e) or a voice command
\* (without); with the map, the event and no lock the map is panned to the click point,
\* unless the projection throws
SelectMountain(i) ==
    /\ selectedMountain' = MOUNTAINS[i].id
    /\ showAnalysis' = TRUE
    /\ analysis' = IF analysis.result # "null" THEN AnalysisIdle ELSE analysis
    /\ \E pans \in BOOLEAN :
           mapCenter' = IF pans /\ mapInstance /\ ~isMapLocked
                        THEN MOUNTAINS[i].id ELSE mapCenter
    /\ lastOp' = "selectMountain"
    /\ UNCHANGED isMapLocked
    /\ UNCHANGED <<shareVars, aiVars, detectVars, ptrVars>>
    /\ UNCHANGED <<dragVars, searchVars, altVars, batchVars, geoVars>>

\* handleOpenShare
OpenShare ==
    /\ shareUrl' = UrlParams(RotToString(facadeRotation), ToFixed2(declination),
                             BoolToString(useDeclination),
                             selectedMountain # NoMountain,
                             IF selectedMountain # NoMountain THEN selectedMountain ELSE "")
    /\ sharedFrom' = [rot |-> facadeRotation, dec |-> declination,
                      useDec |-> useDeclination, m |-> selectedMountain]
    /\ lastOp' = "share"
    /\ UNCHANGED <<panelVars, aiVars, detectVars, ptrVars, mapVars>>
    /\ UNCHANGED <<dragVars, searchVars, altVars, batchVars, geoVars>>

\* the built URL is opened: App is constructed from its parameters; lat and lon name
\* the place the map was centered on
LoadUrl ==
    /\ shareUrl.built
    /\ facadeRotation' = ParseFloat(shareUrl.rot)
    /\ facadeRotationRef' = ParseFloat(shareUrl.rot)
    /\ declination' = ParseFloat(shareUrl.dec)
    /\ useDeclination' = (shareUrl.useDec = "true")
    /\ selectedMountain' = MountainFromUrl(shareUrl)
    /\ isMapMode' = TRUE
    /\ isDraggingFacade' = FALSE
    /\ listeners' = NoListeners
    /\ callbacks' = <<>>
    /\ vibrations' = <<>>
    /\ query' = ""
    /\ results' = <<>>
    /\ isLoading' = FALSE
    /\ isOpen' = FALSE
    /\ skipDebounceRef' = FALSE
    /\ externalQuery' = ""
    /\ activeEffect' = 1
    /\ timer' = [id |-> 1, q |-> ""]
    /\ inflight' = {}
    /\ mapInstance' = FALSE
    /\ showAltitudes' = FALSE
    /\ mountainAltitudes' = {}
    /\ altitudeDebounceRef' = NoAltTimer
    /\ batches' = {}
    /\ stableMs' = DebounceMs
    /\ showAnalysis' = FALSE
    /\ analysis' = AnalysisIdle
    /\ shareUrl' = NoUrl
    /\ aiClients' = 0
    /\ aiRequests' = {}
    /\ isDetectingDeclination' = FALSE
    /\ declinationError' = NoDetectError
    /\ detection' = "idle"
    /\ detectClosure' = NoDetectClosure
    /\ isMapLocked' = FALSE
    /\ lastOp' = "loadUrl"
    /\ UNCHANGED <<stepsUsed, sharedFrom, apiKey, ptrVars, batchVars, geoVars, mapCenter>>

\* toggleMapLock
ToggleMapLock ==
    /\ isMapLocked' = ~isMapLocked
    /\ UNCHANGED <<lastOp, mapCenter, panelVars, shareVars, aiVars, detectVars, ptrVars>>
    /\ UNCHANGED <<dragVars, searchVars, altVars, batchVars, geoVars>>

----------------------------------------------------------------------------
(* geminiService.analyzeDirection and App.handleAnalyze *)

\* analyses one behaviour contains
MaxAnalyses == 2

\* `if (!process.env.API_KEY) throw`
KeyRequired(key) == key
\* a service that goes on without a key
KeyIgnored(key) == TRUE
KeyPresent(key) == KeyRequired(key)

\* the rotation analyzeDirection puts in the prompt
AnalyzeFullTurn(rotation) == JsMod(JsMod(rotation, FullTurn) + FullTurn, FullTurn)
\* a normalisation to half a turn
AnalyzeHalfTurn(rotation) == JsMod(JsMod(rotation, 180000) + 180000, 180000)
AnalyzeNormalized(rotation) == AnalyzeFullTurn(rotation)

KeyMissingMessage == "API Key is missing. Please set the API_KEY environment variable."
\* what generateContent does: a text, an empty text, an error with or without a message
AiOutcomes == {"text", "emptyText", "error", "errorNoMessage"}
AnalysisAfter(outcome) ==
    CASE outcome = "text"           -> AnalysisState(FALSE, "answer", "null")
      [] outcome = "emptyText"      -> AnalysisState(FALSE, "no answer from the oracle", "null")
      [] outcome = "error"          -> AnalysisState(FALSE, "null", "service message")
      [] outcome = "errorNoMessage" -> AnalysisState(FALSE, "null", "connection error")

\* handleAnalyze, from the button of the analysis panel; without a key the rejection
\* of analyzeDirection is caught before any other event
HandleAnalyze ==
    /\ showAnalysis
    /\ selectedMountain # NoMountain
    /\ analysis.result = "null"
    /\ ~analysis.isLoading
    /\ IF KeyPresent(apiKey)
       THEN /\ aiClients < MaxAnalyses
            /\ aiClients' = aiClients + 1
            /\ aiRequests' = aiRequests \cup
                   {[id |-> aiClients + 1, mountain |-> selectedMountain,
                     passed |-> NormalizedTemplateRotation,
                     rot |-> AnalyzeNormalized(NormalizedTemplateRotation)]}
            /\ analysis' = AnalysisState(TRUE, "null", "null")
       ELSE /\ analysis' = AnalysisState(FALSE, "null", KeyMissingMessage)
            /\ UNCHANGED <<aiClients, aiRequests>>
    /\ lastOp' = "analyze"
    /\ UNCHANGED <<selectedMountain, showAnalysis, apiKey, shareVars, detectVars, ptrVars,
                   mapVars>>
    /\ UNCHANGED <<dragVars, searchVars, altVars, batchVars, geoVars>>

\* `await analyzeDirection(...)` resumes in handleAnalyze
AnalyzeResponse(r, outcome) ==
    /\ r \in aiRequests
    /\ aiRequests' = aiRequests \ {r}
    /\ analysis' = AnalysisAfter(outcome)
    /\ lastOp' = "analyzeResponse"
    /\ UNCHANGED <<selectedMountain, showAnalysis, apiKey, aiClients, shareVars,
                   detectVars, ptrVars, mapVars>>
    /\ UNCHANGED <<dragVars, searchVars, altVars, batchVars, geoVars>>

\* the close button of the analysis panel
CloseAnalysis ==
    /\ showAnalysis
    /\ showAnalysis' = FALSE
    /\ lastOp' = "closeAnalysis"
    /\ UNCHANGED <<selectedMountain, analysis, shareVars, aiVars, detectVars, ptrVars,
                   mapVars>>
    /\ UNCHANGED <<dragVars, searchVars, altVars, batchVars, geoVars>>

----------------------------------------------------------------------------
(* App.handleAutoDetectDeclination *)

\* `${msg} Введите вручную.`
MessageWithHint(msg) == [text |-> msg, hint |-> "enter manually"]
\* a handler that stores no message
MessageDropped(msg) == NoDetectError
DetectErrorMessage(msg) == MessageWithHint(msg)

\* rejections of getDeviceLocation
LocationFailures == {"Geolocation is not supported by your browser", "User denied Geolocation"}
\* errors thrown by getMagneticDeclination
DeclinationFailures == {"Service unavailable", "Invalid data format from declination service"}
\* declinations the service returns
DetectedDeclinations == {11234, -7000}

\* the Auto button: handleAutoDetectDeclination up to `await getDeviceLocation()`
AutoDetectStart ==
    /\ ~isDetectingDeclination
    /\ isDetectingDeclination' = TRUE
    /\ declinationError' = NoDetectError
    /\ detection' = "location"
    /\ detectClosure' = [map |-> mapInstance, locked |-> isMapLocked]
    /\ lastOp' = "detectStart"
    /\ UNCHANGED <<panelVars, shareVars, aiVars, ptrVars, mapVars>>
    /\ UNCHANGED <<dragVars, searchVars, altVars, batchVars, geoVars>>

\* the catch and finally blocks
DetectFails(msg) ==
    /\ declinationError' = DetectErrorMessage(msg)
    /\ isDetectingDeclination' = FALSE
    /\ detection' = "idle"
    /\ detectClosure' = NoDetectClosure
    /\ lastOp' = "detectFailed"
    /\ UNCHANGED <<panelVars, shareVars, aiVars, ptrVars, mapVars>>
    /\ UNCHANGED <<dragVars, searchVars, altVars, batchVars, geoVars>>

\* getDeviceLocation resolves: the handler centers the map on the device, if its render
\* had the map and no lock, and goes on to `await getMagneticDeclination(...)`
LocationFound ==
    /\ detection = "location"
    /\ detection' = "declination"
    /\ mapCenter' = IF detectClosure.map /\ ~detectClosure.locked
                    THEN DeviceCenter ELSE mapCenter
    /\ detectClosure' = NoDetectClosure
    /\ lastOp' = "detectLocation"
    /\ UNCHANGED <<isDetectingDeclination, declinationError, isMapLocked>>
    /\ UNCHANGED <<panelVars, shareVars, aiVars, ptrVars>>
    /\ UNCHANGED <<dragVars, searchVars, altVars, batchVars, geoVars>>

\* getDeviceLocation rejects
LocationFails(msg) ==
    /\ detection = "location"
    /\ DetectFails(msg)

\* getMagneticDeclination throws
DeclinationFails(msg) ==
    /\ detection = "declination"
    /\ DetectFails(msg)

\* getMagneticDeclination resolves: setDeclination(parseFloat(magDec.toFixed(2))),
\* setUseDeclination(true), the finally block, and the effect of the render
DeclinationFound(magDec) ==
    LET dec == ParseFloat(ToFixed2(magDec))
        rot == Normalized(TemplateRotation(dec, TRUE))
        changed == rot # NormalizedTemplateRotation
    IN  /\ detection = "declination"
        /\ declination' = dec
        /\ useDeclination' = TRUE
        /\ AltEffect(changed, showAltitudes, rot, mapInstance)
        /\ stableMs' = IF changed THEN 0 ELSE stableMs
        /\ isDetectingDeclination' = FALSE
        /\ detection' = "idle"
        /\ lastOp' = "detectOk"
        /\ UNCHANGED <<declinationError, detectClosure>>
        /\ UNCHANGED <<mapInstance, showAltitudes, mountainAltitudes, batches>>
        /\ UNCHANGED <<panelVars, shareVars, aiVars, ptrVars, mapVars>>
        /\ UNCHANGED <<dragVars, searchVars, batchVars, geoVars>>

----------------------------------------------------------------------------
(* CompassOverlay.calculateRotation over pointer and compass positions *)

\* clientX, clientY of the pointer event
ClientPositions == (-(MaxCoord + 1)..(MaxCoord + 1)) \X (-(MaxCoord + 1)..(MaxCoord + 1))
\* the center of the compass rectangle
CenterPositions == (0..1) \X (0..1)

PointerOffset(client, center) == <<client[1] - center[1], client[2] - center[2]>>

\* calculateRotation up to onFacadeChange(angle)
CalculateRotation ==
    /\ ~ptrDone
    /\ ptrAngle' = PointerAngle(PointerOffset(ptrClient, ptrCenter))
    /\ ptrDone' = TRUE
    /\ UNCHANGED <<ptrClient, ptrCenter>>
    /\ UNCHANGED <<lastOp, panelVars, shareVars, aiVars, detectVars, mapVars>>
    /\ UNCHANGED <<dragVars, searchVars, altVars, batchVars, geoVars>>

----------------------------------------------------------------------------
(* Initial states: the components as mounted *)

\* CompassOverlay and the facade state with the default rotation
DragMounted ==
    /\ facadeRotationRef = facadeRotation
    /\ isMapMode = TRUE
    /\ isDraggingFacade = FALSE
    /\ listeners = NoListeners
    /\ stepsUsed = 0
    /\ callbacks = <<>>
    /\ vibrations = <<>>

\* SearchBar after its first render: the debounce effect has run for the empty query
SearchMounted ==
    /\ query = ""
    /\ results = <<>>
    /\ isLoading = FALSE
    /\ isOpen = FALSE
    /\ skipDebounceRef = FALSE
    /\ externalQuery = ""
    /\ activeEffect = 1
    /\ timer = [id |-> 1, q |-> ""]
    /\ inflight = {}

\* App's template rotation and altitude state with the defaults
AltMounted ==
    /\ declination = 12000
    /\ useDeclination = TRUE
    /\ mapInstance = FALSE
    /\ showAltitudes = FALSE
    /\ mountainAltitudes = {}
    /\ altitudeDebounceRef = NoAltTimer
    /\ batches = {}
    /\ stableMs = DebounceMs

\* no getBatchAltitudes call and no sector under study
BatchIdle ==
    /\ batchN = 0
    /\ batchResp = HttpError
    /\ batchOut = <<>>
    /\ batchDone = FALSE
GeoIdle ==
    /\ geoSector = 1
    /\ geoAngle = 0
    /\ geoMid = 0
    /\ geoDone = FALSE

\* no sector selected, the panels closed, nothing shared
AppMounted ==
    /\ selectedMountain = NoMountain
    /\ showAnalysis = FALSE
    /\ analysis = AnalysisIdle
    /\ shareUrl = NoUrl
    /\ sharedFrom = NothingShared
    /\ apiKey = TRUE
    /\ aiClients = 0
    /\ aiRequests = {}
    /\ isDetectingDeclination = FALSE
    /\ declinationError = NoDetectError
    /\ detection = "idle"
    /\ detectClosure = NoDetectClosure
    /\ isMapLocked = FALSE
    /\ mapCenter = InitialCenter
    /\ ptrClient = <<0, 0>>
    /\ ptrCenter = <<0, 0>>
    /\ ptrAngle = 0
    /\ ptrDone = FALSE

----------------------------------------------------------------------------
(* The facade rotation and the drag controller *)

Init ==
    /\ lastOp = "init"
    /\ facadeRotation \in InitRotations
    /\ DragMounted
    /\ SearchMounted
    /\ AltMounted
    /\ AppMounted
    /\ BatchIdle
    /\ GeoIdle

Next ==
    \/ \E p \in PointerOffsets : FacadeDragStart(p)
    \/ \E t \in MoveTypes, p \in PointerOffsets : WindowMove(t, p)
    \/ \E t \in UpTypes : WindowUp(t)
    \/ RefEffect
    \/ \E v \in SliderValues : SliderChange(v)
    \/ \E d \in {-HalfDeg, HalfDeg} : AdjustFacadeRotation(d)
    \/ \E n \in VoiceNumbers : VoiceNumber(n)
    \/ \E b \in BOOLEAN : SetMapMode(b)

Spec == Init /\ [][Next]_vars

----------------------------------------------------------------------------
(* The search box *)

InitSearch ==
    /\ lastOp = "init"
    /\ facadeRotation = 0
    /\ DragMounted
    /\ SearchMounted
    /\ AltMounted
    /\ AppMounted
    /\ BatchIdle
    /\ GeoIdle

NextSearch ==
    \/ \E q \in TypedQueries : TypeQuery(q)
    \/ ClearSearch
    \/ \E a \in Addresses : HandleSelect(a)
    \/ \E a \in Addresses : ExternalAddress(a)
    \/ TimerSearch
    \/ TimerShort
    \/ \E r \in inflight, ok \in BOOLEAN : SearchResponse(r, ok)
    \/ FocusInput
    \/ ClickOutside

SpecSearch == InitSearch /\ [][NextSearch]_vars

----------------------------------------------------------------------------
(* The template rotation and the altitude refresh *)

InitAlt ==
    /\ lastOp = "init"
    /\ facadeRotation = 0
    /\ DragMounted
    /\ SearchMounted
    /\ AltMounted
    /\ AppMounted
    /\ BatchIdle
    /\ GeoIdle

NextAlt ==
    \/ MapReady
    \/ AltitudesOn
    \/ AltitudesOff
    \/ \E d \in DeclinationValues : SetDeclination(d)
    \/ ToggleUseDeclination
    \/ Tick
    \/ AltTimerFire
    \/ ActionEnd
    \/ \E b \in batches : \E resp \in AltResponses(b.locs) : BatchResponse(b, resp)

SpecAlt == InitAlt /\ [][NextAlt]_vars

----------------------------------------------------------------------------
(* getBatchAltitudes over every batch size and service outcome *)

InitBatch ==
    /\ lastOp = "init"
    /\ facadeRotation = 0
    /\ DragMounted
    /\ SearchMounted
    /\ AltMounted
    /\ AppMounted
    /\ GeoIdle
    /\ batchN \in 0..MaxBatchLen
    /\ batchResp \in BatchOutcomes
    /\ batchOut = <<>>
    /\ batchDone = FALSE

NextBatch == BatchCall

SpecBatch == InitBatch /\ [][NextBatch]_vars

----------------------------------------------------------------------------
(* The sector table and the arc midpoint over every sector and ring angle *)

InitGeom ==
    /\ lastOp = "init"
    /\ facadeRotation = 0
    /\ DragMounted
    /\ SearchMounted
    /\ AltMounted
    /\ AppMounted
    /\ BatchIdle
    /\ geoSector \in 1..Len(MOUNTAINS)
    /\ geoAngle \in RingAngles
    /\ geoMid = 0
    /\ geoDone = FALSE

NextGeom == ArcMidpoint

SpecGeom == InitGeom /\ [][NextGeom]_vars

----------------------------------------------------------------------------
(* The share URL: build it, open it *)

\* values of the rot and dec parameters of the URL the page was opened with
UrlRotations == {0, 116565, 359996}
UrlDeclinations == {12000, -370004, 725500}

InitShare ==
    /\ lastOp = "init"
    /\ facadeRotation \in UrlRotations
    /\ DragMounted
    /\ SearchMounted
    /\ declination \in UrlDeclinations
    /\ useDeclination \in BOOLEAN
    /\ mapInstance = FALSE
    /\ showAltitudes = FALSE
    /\ mountainAltitudes = {}
    /\ altitudeDebounceRef = NoAltTimer
    /\ batches = {}
    /\ stableMs = DebounceMs
    /\ selectedMountain \in {NoMountain, MOUNTAINS[1].id}
    /\ showAnalysis = FALSE
    /\ analysis = AnalysisIdle
    /\ shareUrl = NoUrl
    /\ sharedFrom = NothingShared
    /\ apiKey = TRUE
    /\ aiClients = 0
    /\ aiRequests = {}
    /\ isDetectingDeclination = FALSE
    /\ declinationError = NoDetectError
    /\ detection = "idle"
    /\ detectClosure = NoDetectClosure
    /\ isMapLocked = FALSE
    /\ mapCenter = InitialCenter
    /\ ptrClient = <<0, 0>>
    /\ ptrCenter = <<0, 0>>
    /\ ptrAngle = 0
    /\ ptrDone = FALSE
    /\ BatchIdle
    /\ GeoIdle

NextShare ==
    \/ \E d \in {-HalfDeg, HalfDeg} : AdjustFacadeRotation(d)
    \/ \E d \in DeclinationValues : SetDeclination(d)
    \/ ToggleUseDeclination
    \/ \E i \in SelectableSectors : SelectMountain(i)
    \/ OpenShare
    \/ LoadUrl

SpecShare == InitShare /\ [][NextShare]_vars

----------------------------------------------------------------------------
(* The analysis panel, opened from a URL with any declination *)

InitAnalyze ==
    /\ lastOp = "init"
    /\ facadeRotation = 0
    /\ DragMounted
    /\ SearchMounted
    /\ declination \in UrlDeclinations
    /\ useDeclination \in BOOLEAN
    /\ mapInstance = FALSE
    /\ showAltitudes = FALSE
    /\ mountainAltitudes = {}
    /\ altitudeDebounceRef = NoAltTimer
    /\ batches = {}
    /\ stableMs = DebounceMs
    /\ selectedMountain \in {NoMountain, MOUNTAINS[1].id}
    /\ showAnalysis = FALSE
    /\ analysis = AnalysisIdle
    /\ shareUrl = NoUrl
    /\ sharedFrom = NothingShared
    /\ apiKey \in BOOLEAN
    /\ aiClients = 0
    /\ aiRequests = {}
    /\ isDetectingDeclination = FALSE
    /\ declinationError = NoDetectError
    /\ detection = "idle"
    /\ detectClosure = NoDetectClosure
    /\ isMapLocked = FALSE
    /\ mapCenter = InitialCenter
    /\ ptrClient = <<0, 0>>
    /\ ptrCenter = <<0, 0>>
    /\ ptrAngle = 0
    /\ ptrDone = FALSE
    /\ BatchIdle
    /\ GeoIdle

NextAnalyze ==
    \/ \E d \in DeclinationValues : SetDeclination(d)
    \/ ToggleUseDeclination
    \/ \E i \in SelectableSectors : SelectMountain(i)
    \/ HandleAnalyze
    \/ \E r \in aiRequests, o \in AiOutcomes : AnalyzeResponse(r, o)
    \/ CloseAnalysis

SpecAnalyze == InitAnalyze /\ [][NextAnalyze]_vars

----------------------------------------------------------------------------
(* The declination auto-detect beside the manual controls *)

InitDetect ==
    /\ lastOp = "init"
    /\ facadeRotation = 0
    /\ DragMounted
    /\ SearchMounted
    /\ AltMounted
    /\ AppMounted
    /\ BatchIdle
    /\ GeoIdle

NextDetect ==
    \/ MapReady
    \/ \E d \in DeclinationValues : SetDeclination(d)
    \/ ToggleUseDeclination
    \/ AutoDetectStart
    \/ LocationFound
    \/ \E msg \in LocationFailures : LocationFails(msg)
    \/ \E msg \in DeclinationFailures : DeclinationFails(msg)
    \/ \E d \in DetectedDeclinations : DeclinationFound(d)

SpecDetect == InitDetect /\ [][NextDetect]_vars

----------------------------------------------------------------------------
(* calculateRotation over every pointer and compass position *)

InitPointer ==
    /\ lastOp = "init"
    /\ facadeRotation = 0
    /\ DragMounted
    /\ SearchMounted
    /\ AltMounted
    /\ selectedMountain = NoMountain
    /\ showAnalysis = FALSE
    /\ analysis = AnalysisIdle
    /\ shareUrl = NoUrl
    /\ sharedFrom = NothingShared
    /\ apiKey = TRUE
    /\ aiClients = 0
    /\ aiRequests = {}
    /\ isDetectingDeclination = FALSE
    /\ declinationError = NoDetectError
    /\ detection = "idle"
    /\ detectClosure = NoDetectClosure
    /\ isMapLocked = FALSE
    /\ mapCenter = InitialCenter
    /\ ptrClient \in ClientPositions
    /\ ptrCenter \in CenterPositions
    /\ ptrAngle = 0
    /\ ptrDone = FALSE
    /\ BatchIdle
    /\ GeoIdle

NextPointer == CalculateRotation

SpecPointer == InitPointer /\ [][NextPointer]_vars

----------------------------------------------------------------------------
(* Claims about the facade rotation and the drag controller (under Spec) *)

\* C1: facadeRotation is in [0,360) in every reachable state, after initialisation
\* and after any sequence of drags, slider changes, step buttons and voice numbers.
C1_FacadeInRange == 0 <= facadeRotation /\ facadeRotation < FullTurn

\* C2: snap law - the value reported and stored by a drag release is an exact
\* multiple of 0.5 degree.
C2_SnapLaw ==
    lastOp = "up" =>
        /\ facadeRotation % HalfDeg = 0
        /\ callbacks # <<>>
        /\ \A i \in 1..Len(callbacks) : callbacks[i] % HalfDeg = 0
\* a release whose live value was off the 0.5 grid and was snapped onto it
C2_Witness ==
    /\ lastOp = "up"
    /\ facadeRotationRef % HalfDeg # 0
    /\ facadeRotation % HalfDeg = 0

\* C3: the value reported on release is round(r*2)/2 of the rotation r reported by
\* the most recent move (or drag-start) callback, whatever the interleaving of
\* pointer events and the effect that copies facadeRotation into the reference.
C3_ReleaseUsesLatest ==
    [][(lastOp \in {"dragStart", "move"} /\ lastOp' = "up") =>
          \A i \in 1..Len(callbacks') : callbacks'[i] = Snap(callbacks[Len(callbacks)])]_vars

\* C4: listener teardown - whenever the controller is Idle no window listener
\* registered by a drag-start remains registered.
C4_ListenerTeardown ==
    ~isDraggingFacade => \A t \in ListenerTypes : listeners[t] = {}
\* a release that tore down two outstanding listener sets
C4_Witness ==
    /\ lastOp = "up"
    /\ Len(callbacks) = 2
    /\ ~isDraggingFacade
    /\ listeners = NoListeners

\* C5: while Dragging every pointer-move event produces exactly one onFacadeChange
\* callback, carrying the bearing computed from that event.
C5_OneCallbackPerMove ==
    lastOp = "move" => \E p \in PointerOffsets : callbacks = <<PointerAngle(p)>>

----------------------------------------------------------------------------
(* Claims about the search box (under SpecSearch) *)

\* C6: stale search results are dropped - a response to a query that has been
\* superseded never changes results, isOpen or isLoading, and a response that is
\* applied is the response to the query that is current when it resolves.
C6_StaleDropped ==
    /\ [](\A r \in inflight : r.id = activeEffect => r.q = query)
    /\ [][\A r \in inflight \ inflight' :
            (r.id # activeEffect \/ r.q # query) =>
                UNCHANGED <<results, isOpen, isLoading>>]_vars
\* a response to a superseded query arrived after a newer query's results were shown
C6_Witness ==
    /\ lastOp = "responseDropped"
    /\ results # <<>>
    /\ results = Geo(query)

\* C14: a query shorter than 3 characters, the empty one included, never reaches the
\* geocoding service and yields an empty result set: no searchAddress call is made for
\* it by the debounce path, which empties and closes the list instead, and
\* searchAddress itself answers it with [] whatever the service would say.
C14_ShortQueryNoRequest ==
    /\ \A r \in inflight : StrLen(r.q) >= 3
    /\ (lastOp = "short" => (results = <<>> /\ ~isOpen))
    /\ \A q \in TypedQueries, ok \in BOOLEAN :
           StrLen(q) < 3 => SearchAddress(q, ok) = <<>>
C14_Witness ==
    /\ lastOp = "short"
    /\ query = "mo"
    /\ results = <<>>
    /\ inflight = {}
    /\ timer = NoTimer

----------------------------------------------------------------------------
(* Claims about the altitude refresh (under SpecAlt) *)

\* C7: elevation refresh debounce - whenever the rotation timeout issues a batch fetch,
\* the rotation has been stable for 500 ms and the fetch is computed with the final
\* settled rotation value (the current one), never an intermediate value.
C7_DebouncedFetch ==
    [][(/\ altitudeDebounceRef.set
        /\ ~altitudeDebounceRef'.set
        /\ FetchIssues(altitudeDebounceRef.map))
       => /\ stableMs >= DebounceMs
          /\ \A b \in batches' \ batches : b.rot = NormalizedTemplateRotation]_vars

\* C13: sample-point generation tolerates per-point projection failure - whatever set
\* of sectors has a throwing projection, the batch requested holds exactly one sample
\* for every other sector, in table order, at that sector's bearing, and none for the
\* failed ones.
C13_ProjectionFailureTolerated ==
    \A b \in batches :
        LET ok == {i \in 1..Len(MOUNTAINS) : MOUNTAINS[i].id \notin b.failed}
        IN  /\ Len(b.locs) = Cardinality(ok)
            /\ \A i \in ok :
                   \E k \in 1..Len(b.locs) :
                       /\ b.locs[k].id = MOUNTAINS[i].id
                       /\ b.locs[k].bearing = (MidDegree(MOUNTAINS[i]) + b.rot) % FullTurn
                       /\ k = Cardinality({j \in ok : j <= i})
            /\ \A k \in 1..Len(b.locs) : b.locs[k].id \notin b.failed
C13_Witness ==
    \E b \in batches :
        /\ b.failed = {"n2", "s2"}
        /\ Len(b.locs) = 22
        /\ b.locs[2].id = "n3"

----------------------------------------------------------------------------
(* Claims about getBatchAltitudes (under SpecBatch) *)

\* C8: elevation batch result shape - for every batch of n coordinates and every
\* service outcome, getBatchAltitudes returns a sequence of exactly n entries in which
\* every missing or failed slot is null.
C8_BatchShape ==
    batchDone =>
        /\ Len(batchOut) = batchN
        /\ \A i \in 1..batchN : At(batchOut, i) # JsUndefined

----------------------------------------------------------------------------
(* Claims about the sector table and the midpoint (under SpecGeom) *)

\* a sector contains an angle when start <= a < end, or, for the sector with
\* end < start, when a >= start or a < end
Contains(m, a) ==
    IF m.endDegree < m.startDegree
    THEN a >= m.startDegree \/ a < m.endDegree
    ELSE m.startDegree <= a /\ a < m.endDegree
SectorsContaining(a) == {i \in 1..Len(MOUNTAINS) : Contains(MOUNTAINS[i], a)}
IsWrapSector(m) == m.endDegree < m.startDegree

\* C9: sector partition - every angle in [0,360) is contained in exactly one of the
\* 24 sectors of the table.
C9_SectorPartition ==
    /\ Len(MOUNTAINS) = 24
    /\ Cardinality(SectorsContaining(geoAngle)) = 1
C9_Witness ==
    /\ geoAngle = 0
    /\ SectorsContaining(geoAngle) = {2}
    /\ MOUNTAINS[2].direction = "N2"
    /\ IsWrapSector(MOUNTAINS[2])

----------------------------------------------------------------------------
(* Claims about the share URL (under SpecShare) *)

\* C11: share-URL rotation round-trip - a facadeRotation re-initialised from the URL
\* that handleOpenShare built is within 0.01 degree of the facadeRotation it was built
\* from.
C11_RotationRoundTrip ==
    [][(shareUrl.built /\ ~shareUrl'.built) =>
           Abs(facadeRotation' - sharedFrom.rot) <= 10]_vars
C11_Witness ==
    /\ lastOp = "loadUrl"
    /\ sharedFrom.rot = 116565
    /\ facadeRotation = 116570

\* C12: share-URL state round-trip - re-initialising from the URL that handleOpenShare
\* built reproduces the useDeclination flag, the declination to 2 decimals and the
\* selected sector; the m parameter is present exactly when a sector is selected, and
\* an absent m restores "no sector selected".
C12_StateRoundTrip ==
    /\ [][(shareUrl.built /\ ~shareUrl'.built) =>
              /\ useDeclination' = sharedFrom.useDec
              /\ ToFixed2(declination') = ToFixed2(sharedFrom.dec)
              /\ selectedMountain' = sharedFrom.m]_vars
    /\ [](shareUrl.built =>
              /\ shareUrl.hasM <=> sharedFrom.m # NoMountain
              /\ ~shareUrl.hasM => MountainFromUrl(shareUrl) = NoMountain)
C12_Witness ==
    /\ lastOp = "loadUrl"
    /\ sharedFrom.m = MOUNTAINS[2].id
    /\ selectedMountain = MOUNTAINS[2].id
    /\ sharedFrom.dec = -370004
    /\ declination = -370000
    /\ ~useDeclination

----------------------------------------------------------------------------
(* Claims about the template rotation and the analysis (under SpecAnalyze) *)

\* C15: template-rotation normalisation - for every declination (negative, zero, beyond
\* a full turn) the normalised template rotation is the residue of t modulo 360 in
\* [0,360), with t the declination when useDeclination is on and 0 otherwise.
C15_TemplateRotationNormalised ==
    LET t == IF useDeclination THEN declination ELSE 0
    IN  /\ NormalizedTemplateRotation = t % FullTurn
        /\ 0 <= NormalizedTemplateRotation
        /\ NormalizedTemplateRotation < FullTurn
C15_Witness ==
    /\ useDeclination
    /\ declination = -370004
    /\ NormalizedTemplateRotation = 349996

\* C16: normalisation is idempotent - the rotation analyzeDirection normalises again is
\* the normalised template rotation it was passed, and normalising the current
\* normalised rotation changes nothing.
C16_NormaliseIdempotent ==
    /\ \A r \in aiRequests : r.rot = r.passed
    /\ Normalized(NormalizedTemplateRotation) = NormalizedTemplateRotation
    /\ AnalyzeNormalized(AnalyzeNormalized(declination)) = AnalyzeNormalized(declination)
C16_Witness ==
    \E r \in aiRequests : r.passed = 349996 /\ r.rot = 349996

\* C19: a missing API key is a hard failure before any network activity - without the
\* key no client is ever created and no request issued, and handleAnalyze leaves the
\* analysis state not loading, without result, with the error message set.
C19_MissingKeyFailsFirst ==
    ~apiKey =>
        /\ aiClients = 0
        /\ aiRequests = {}
        /\ ~analysis.isLoading
        /\ analysis.result = "null"
        /\ lastOp = "analyze" => analysis = AnalysisState(FALSE, "null", KeyMissingMessage)
C19_Witness ==
    /\ ~apiKey
    /\ lastOp = "analyze"
    /\ analysis.error = KeyMissingMessage
    /\ aiClients = 0

----------------------------------------------------------------------------
(* Claims about calculateRotation (under SpecPointer) *)

\* C17: pointer-to-angle conversion - the reported bearing is in [0,360) for every
\* pointer position; it is 0 straight above the center, 90 to the right, 180 below,
\* 270 to the left, and grows clockwise through the quadrants in between.
C17_PointerBearing ==
    ptrDone =>
        LET x == ptrClient[1] - ptrCenter[1]
            y == ptrClient[2] - ptrCenter[2]
        IN  /\ 0 <= ptrAngle /\ ptrAngle < FullTurn
            /\ (x = 0 /\ y < 0) => ptrAngle = 0
            /\ (x > 0 /\ y < 0) => (0 < ptrAngle /\ ptrAngle < 90000)
            /\ (x > 0 /\ y = 0) => ptrAngle = 90000
            /\ (x > 0 /\ y > 0) => (90000 < ptrAngle /\ ptrAngle < 180000)
            /\ (x = 0 /\ y > 0) => ptrAngle = 180000
            /\ (x < 0 /\ y > 0) => (180000 < ptrAngle /\ ptrAngle < 270000)
            /\ (x < 0 /\ y = 0) => ptrAngle = 270000
            /\ (x < 0 /\ y < 0) => (270000 < ptrAngle /\ ptrAngle < FullTurn)
            /\ (x > 0 /\ y = -x) => ptrAngle = 45000
C17_Witness ==
    /\ ptrDone
    /\ ptrClient = <<2, 1>>
    /\ ptrCenter = <<1, 1>>
    /\ ptrAngle = 90000

----------------------------------------------------------------------------
(* Claims about the sector at angle 0 (under SpecGeom) *)

\* C18: the sector containing angle 0 is the one with code N2 and range 352.5 -> 7.5,
\* it is the only wrap-around sector of the table, and no other sector contains 0.
C18_AngleZeroIsN2 ==
    geoAngle = 0 =>
        \E i \in 1..Len(MOUNTAINS) :
            /\ SectorsContaining(geoAngle) = {i}
            /\ MOUNTAINS[i].direction = "N2"
            /\ MOUNTAINS[i].startDegree = 352500
            /\ MOUNTAINS[i].endDegree = 7500
            /\ {j \in 1..Len(MOUNTAINS) : IsWrapSector(MOUNTAINS[j])} = {i}
C18_Witness ==
    /\ geoAngle = 0
    /\ geoDone
    /\ MOUNTAINS[geoSector].direction = "N2"
    /\ Contains(MOUNTAINS[geoSector], geoAngle)

----------------------------------------------------------------------------
(* Claims about the declination auto-detect (under SpecDetect) *)

\* C20: auto-detect failure handling - when the device location or the declination
\* lookup fails, declinationError is set to a non-empty message, declination and
\* useDeclination keep their values and isDetectingDeclination returns to false; it
\* also returns to false on success, and is true only while a detection is under way.
C20_DetectFailureHandled ==
    /\ [][(detection # "idle" /\ lastOp' = "detectFailed") =>
              /\ declinationError' # NoDetectError
              /\ declinationError'.text \notin {"null", ""}
              /\ declination' = declination
              /\ useDeclination' = useDeclination
              /\ ~isDetectingDeclination']_vars
    /\ [][(detection # "idle" /\ detection' = "idle") => ~isDetectingDeclination']_vars
    /\ [](isDetectingDeclination <=> detection # "idle")
C20_Witness ==
    /\ lastOp = "detectFailed"
    /\ declinationError = MessageWithHint("Service unavailable")
    /\ ~isDetectingDeclination
    /\ declination = -10000
    /\ ~useDeclination

----------------------------------------------------------------------------
(* The facade controls beside the declination controls *)

InitFrame ==
    /\ lastOp = "init"
    /\ facadeRotation = 0
    /\ DragMounted
    /\ SearchMounted
    /\ AltMounted
    /\ AppMounted
    /\ BatchIdle
    /\ GeoIdle

\* the pointer positions tried beside the declination controls: up-right of the center
\* and straight below it
FramePointers == {<<1, -1>>, <<0, 1>>}

\* drag, slider (at 359.5), step buttons, voice number (720)
FacadeOperation ==
    \/ \E p \in FramePointers : FacadeDragStart(p)
    \/ \E t \in MoveTypes, p \in FramePointers : WindowMove(t, p)
    \/ \E t \in UpTypes : WindowUp(t)
    \/ SliderChange(359500)
    \/ \E d \in {-HalfDeg, HalfDeg} : AdjustFacadeRotation(d)
    \/ VoiceNumber(720000)

\* declination slider, declination switch, auto-detect with one rejection of each
\* service and one detected declination
DeclinationOperation ==
    \/ \E d \in DeclinationValues : SetDeclination(d)
    \/ ToggleUseDeclination
    \/ AutoDetectStart
    \/ LocationFound
    \/ LocationFails("User denied Geolocation")
    \/ DeclinationFails("Service unavailable")
    \/ DeclinationFound(11234)

NextFrame ==
    \/ FacadeOperation
    \/ DeclinationOperation
    \/ RefEffect
    \/ \E b \in BOOLEAN : SetMapMode(b)

SpecFrame == InitFrame /\ [][NextFrame]_vars

----------------------------------------------------------------------------
(* Claims about the two rotations (under SpecFrame) *)

\* C21: template rotation is independent of facade rotation - templateRotation is the
\* declination when useDeclination is on and 0 otherwise; no facade operation (drag,
\* slider, step buttons, voice number) changes declination, useDeclination or
\* templateRotation, and no declination operation (slider, switch, auto-detect)
\* changes facadeRotation.
C21_RotationsIndependent ==
    /\ [](TemplateRotation(declination, useDeclination)
              = IF useDeclination THEN declination ELSE 0)
    /\ [][FacadeOperation =>
              /\ declination' = declination
              /\ useDeclination' = useDeclination
              /\ TemplateRotation(declination, useDeclination)'
                     = TemplateRotation(declination, useDeclination)]_vars
    /\ [][DeclinationOperation => facadeRotation' = facadeRotation]_vars
    /\ [][facadeRotation' # facadeRotation =>
              /\ UNCHANGED <<declination, useDeclination>>
              /\ NormalizedTemplateRotation' = NormalizedTemplateRotation]_vars
\* a drag released at 45 degrees after auto-detect stored a declination
C21_Witness ==
    /\ lastOp = "up"
    /\ facadeRotation = 45000
    /\ declination = 11230
    /\ useDeclination
    /\ TemplateRotation(declination, useDeclination) = 11230

----------------------------------------------------------------------------
(* Claims about the drag gesture (under Spec) *)

\* C22: step haptic rule - on a move while Dragging (one listener set registered, the
\* previous callback made by the drag-start or by a move) a short pulse is requested
\* if and only if the 0.5-snapped new angle differs from the 0.5-snapped rotation that
\* the immediately preceding callback reported.
C22_StepHaptic ==
    [][(/\ \E t \in MoveTypes, p \in PointerOffsets :
               WindowMove(t, p) /\ Cardinality(listeners[t]) = 1
        /\ lastOp \in {"dragStart", "move"}
        /\ callbacks # <<>>)
       => /\ vibrations' \in {<<>>, <<VibrateStep>>}
          /\ (vibrations' = <<VibrateStep>>)
                 <=> (Snap(callbacks'[1]) # Snap(callbacks[Len(callbacks)]))]_vars

----------------------------------------------------------------------------
(* The drag gesture with the window events it does not listen for *)

NextGesture ==
    \/ Next
    \/ \E t \in OtherTypes : WindowOther(t)

SpecGesture == Init /\ [][NextGesture]_vars

\* C23: no cancel path - the only transition out of Dragging is a mouseup or touchend
\* event; any other event (touchcancel, pointercancel, loss of focus) leaves the
\* controller in Dragging with its window listeners still registered.
C23_NoCancelPath ==
    /\ [][(isDraggingFacade /\ ~isDraggingFacade')
              => \E t \in {"mouseup", "touchend"} : WindowUp(t)]_vars
    /\ [][(isDraggingFacade /\ ~(\E t \in {"mouseup", "touchend"} : WindowUp(t)))
              => /\ isDraggingFacade'
                 /\ \A t \in ListenerTypes : listeners[t] \subseteq listeners'[t]]_vars
    /\ [][(isDraggingFacade /\ \E t \in OtherTypes : WindowOther(t))
              => isDraggingFacade' /\ listeners' = listeners /\ listeners' # NoListeners]_vars
\* a touchcancel arrived during a drag, and the drag is still on
C23_Witness ==
    /\ lastOp = "other"
    /\ isDraggingFacade
    /\ \A t \in {"mousemove", "mouseup", "touchmove", "touchend"} : listeners[t] # {}

----------------------------------------------------------------------------
(* Claims about the listener sets (under Spec) *)

\* C24: at most one set of drag window listeners is registered at any time, and
\* isDraggingFacade is true exactly when such a set is registered; a drag-start while
\* already Dragging registers no second set.
C24_SingleListenerSet ==
    /\ \A t \in ListenerTypes : Cardinality(listeners[t]) <= 1
    /\ isDraggingFacade <=> (\A t \in ListenerTypes : listeners[t] # {})

----------------------------------------------------------------------------
(* Claims about the altitude map (under SpecAlt) *)

\* C25: altitudes are shown only while enabled - whenever showAltitudes is false,
\* mountainAltitudes is empty, and while it stays false no timeout or batch answer
\* started earlier puts entries into it.
C25_AltitudesOnlyWhileEnabled ==
    /\ [](~showAltitudes => mountainAltitudes = {})
    /\ [][(~showAltitudes /\ ~showAltitudes') => mountainAltitudes' = {}]_vars

\* C26: altitude-to-sector alignment - when a batch fetch completes, every entry
\* stored in mountainAltitudes under sector id X carries the elevation of the sample
\* point at sector X's own midpoint plus the rotation of the fetch, whether or not
\* projection failed for other sectors or the service answered null for some points;
\* sectors without a sample point have no entry.
C26_AltitudeAlignment ==
    [][\A b \in batches \ batches' :
           \A e \in mountainAltitudes' :
               /\ e.id \notin b.failed
               /\ \E i \in 1..Len(MOUNTAINS) :
                      /\ MOUNTAINS[i].id = e.id
                      /\ e.alt = Num(ElevationAt((MidDegree(MOUNTAINS[i]) + b.rot) % FullTurn))]_vars

----------------------------------------------------------------------------
(* Claims about the analysis panel (under SpecAnalyze) *)

\* C27: analysis belongs to the selected sector - whenever the answer to an analysis
\* request puts a result or an error on display, the request was made for the sector
\* that is selected then; the answer to a request made for an earlier sector is never
\* shown for the newly selected one.
C27_AnalysisOfSelectedSector ==
    [][\A r \in aiRequests \ aiRequests' :
           (analysis'.result # "null" \/ analysis'.error # "null")
               => r.mountain = selectedMountain']_vars

----------------------------------------------------------------------------
(* Claims about the search indicator and the skip flag (under SpecSearch) *)

\* C28: the search loading indicator is not left stuck - once no request is in flight
\* and no timeout is pending, so that nothing is left that could still switch it off,
\* isLoading is false.
C28_LoadingNotStuck ==
    (inflight = {} /\ timer = NoTimer) => ~isLoading

\* C29: the skip-search flag suppresses only the programmatic update it was set for -
\* after the user types a query of at least 3 characters, whatever selections and
\* address syncs came before, the debounce timeout for that query is pending, so that
\* it issues the geocoding request once the query has stayed unchanged for 500 ms.
C29_TypedQuerySearched ==
    (lastOp = "type" /\ StrLen(query) >= 3) =>
        /\ timer # NoTimer
        /\ timer.id = activeEffect
        /\ timer.q = query

----------------------------------------------------------------------------
(* The map lock beside the operations that move the map *)

InitLock ==
    /\ lastOp = "init"
    /\ facadeRotation = 0
    /\ DragMounted
    /\ SearchMounted
    /\ AltMounted
    /\ AppMounted
    /\ BatchIdle
    /\ GeoIdle

NextLock ==
    \/ MapReady
    \/ ToggleMapLock
    \/ TypeQuery("mos")
    \/ TimerSearch
    \/ \E r \in inflight : SearchResponse(r, TRUE)
    \/ \E a \in Addresses : HandleSelect(a)
    \/ SelectMountain(2)
    \/ AutoDetectStart
    \/ LocationFound
    \/ LocationFails("User denied Geolocation")
    \/ DeclinationFails("Service unavailable")
    \/ DeclinationFound(11234)

SpecLock == InitLock /\ [][NextLock]_vars

\* C30: map lock prevents map movement - while isMapLocked is true no application
\* operation changes the map center: sector selection does not pan, declination
\* auto-detect does not recenter, selecting a search result does not recenter.
C30_LockedMapStays ==
    [][isMapLocked => mapCenter' = mapCenter]_vars

====
